---- MODULE Spec2Model ----
(***************************************************************************)
(* Model of zerver/lib/zulip_update_announcements.py: the per-realm        *)
(* progress cursor zulip_update_announcements_level, the audit log of its  *)
(* changes, and the messages the rollout sends.                            *)
(*                                                                         *)
(* Time is counted in whole days.  A message is a record                   *)
(* [kind, level, to]: kinds "dm_unset" and "dm_set" are the two texts of   *)
(* the group direct message to the administrators, "intro" is the          *)
(* introductory topic message, "update" the catalog message of the catalog *)
(* entry `level`.  A message id is the position of the message in the      *)
(* realm's list of sent messages.                                          *)
(***************************************************************************)
EXTENDS Integers, Sequences, FiniteSets, TLC

\* ---------------------------------------------------------------- bounds
MaxTime == 7                      \* the clock is read on days up to MaxTime
MaxQuery == 8                     \* levels -MaxQuery..MaxQuery are looked up
MaxLookups == 2                   \* lookups of the catalog that are recorded

\* ------------------------------------------------------------- constants
None == -1                        \* Python None in an Optional[int] field
NoStream == "none"                \* zulip_update_announcements_stream is None
Admins == "admins"                \* audience of the group direct message
Streams == {"s1"}                 \* the streams a realm can announce to
SYSTEM_BOT_REALM == "zulipinternal"
Realms == {"r1", "r2", SYSTEM_BOT_REALM}
Procs == {"p1", "p2"}             \* concurrent copies of the rollout
NumLevels == 6                    \* entries of zulip_update_announcements
DelayDays == 1                    \* days=1 of the 24 hour delay
GraceDays == 7                    \* timedelta(days=7) of the grace week

\* The days on which the clock is read: up to the end of the delay window,
\* and from the end of the grace week on.
Days == {t \in 0..MaxTime : t <= DelayDays \/ t >= GraceDays}
\* Realms whose announcement topic may hold messages of users at the start.
TopicRealms == {"r1"}
\* Realms that get deactivated and reactivated.
DeactRealms == {"r2"}
\* Realms created or imported while the rollout is in use.
FreshRealms == {"r1"}
\* Realms whose settings the administrators change.
UserRealms == Realms \ {SYSTEM_BOT_REALM}
\* Levels a realm can hold when the catalog of NumLevels entries is deployed.
InitLevels == {None, 0, 2, NumLevels}

\* The catalog: entry i carries level i; the message text of an entry is
\* identified by the entry's level.
zulip_update_announcements == [i \in 1..NumLevels |-> [level |-> i]]

IndexError == [level |-> None]

\* Python list indexing seq[i]: 0-based, a negative index counts from the
\* end, anything else raises IndexError.
PyIndex(seq, i) ==
    IF i >= 0 /\ i < Len(seq) THEN seq[i + 1]
    ELSE IF i < 0 /\ i >= 0 - Len(seq) THEN seq[Len(seq) + i + 1]
    ELSE IndexError

get_latest_zulip_update_announcements_level ==
    PyIndex(zulip_update_announcements, 0 - 1).level

\* The catalog entry whose message the lookup returns (IndexError if none).
get_zulip_update_announcements_message_for_level(level) ==
    PyIndex(zulip_update_announcements, level - 1)

Latest == get_latest_zulip_update_announcements_level

Levels == {None} \cup (0..Latest)

\* ----------------------------------------------------------------- state
VARIABLES
    level,        \* realm -> zulip_update_announcements_level
    stream,       \* realm -> zulip_update_announcements_stream
    deactivated,  \* realm -> Realm.deactivated
    topic,        \* realm -> streams whose announcement topic has messages
    audit,        \* realm -> RealmAuditLog rows of the level property, by pk
    sent,         \* realm -> messages do_send_messages delivered, in order
    now,          \* timezone_now(), in days
    pc,           \* copy of the rollout -> where it stands
    todo,         \* copy -> realms its loop has not processed yet
    arg,          \* copy -> [skip_delay, imported] of its call
    obj,          \* copy -> the Realm object it refreshed
    plan,         \* copy -> the new level and message requests it decided
    lookups       \* the catalog lookups made for any level, with their results

store == <<level, stream, deactivated, topic, audit, sent, now>>
local == <<pc, todo, arg, obj, plan>>
vars == <<level, stream, deactivated, topic, audit, sent, now,
          pc, todo, arg, obj, plan, lookups>>

DM(s) == [kind |-> IF s = NoStream THEN "dm_unset" ELSE "dm_set",
          level |-> 0, to |-> Admins]
Intro(s) == [kind |-> "intro", level |-> 0, to |-> s]
Update(l, s) == [kind |-> "update", level |-> l, to |-> s]

\* ---------------------------------------------------------- pure helpers
get_realms_behind_with_deactivated(lv, dv, lim) ==
    {r \in Realms : /\ (lv[r] = None \/ lv[r] < lim)
                    /\ r # SYSTEM_BOT_REALM}

get_realms_behind_zulip_update_announcements_level(lv, dv, lim) ==
    {r \in Realms : /\ (lv[r] = None \/ lv[r] < lim)
                    /\ dv[r] = FALSE
                    /\ r # SYSTEM_BOT_REALM}

RECURSIVE FirstNoneRow(_, _)
FirstNoneRow(log, i) ==
    IF i > Len(log) THEN 0
    ELSE IF log[i].old = None THEN i
    ELSE FirstNoneRow(log, i + 1)

\* Index of the first audit row with OLD_VALUE None, 0 when there is none.
get_level_none_to_initial_auditlog(log) == FirstNoneRow(log, 1)

\* Precondition: the row exists (the code asserts it).
is_group_direct_message_sent_to_admins_within_days(log, t, days) ==
    t - log[get_level_none_to_initial_auditlog(log)].time < days

RECURSIVE internal_prep_skip_first(_, _, _)
internal_prep_skip_first(current_level, latest_level, s) ==
    IF current_level + 1 < latest_level
    THEN <<Update(get_zulip_update_announcements_message_for_level(current_level + 2).level, s)>>
         \o internal_prep_skip_first(current_level + 1, latest_level, s)
    ELSE <<>>

RECURSIVE internal_prep_zulip_update_announcements_stream_messages(_, _, _)
internal_prep_zulip_update_announcements_stream_messages(current_level, latest_level, s) ==
    IF current_level < latest_level
    THEN <<Update(get_zulip_update_announcements_message_for_level(current_level + 1).level, s)>>
         \o internal_prep_zulip_update_announcements_stream_messages(
                current_level + 1, latest_level, s)
    ELSE <<>>

RefreshAssert_none(lvl) == TRUE

\* The assertion after refresh_from_db.
RefreshAssert(lvl) == lvl = None \/ lvl < Latest

Outcome(o, n, m) == [outcome |-> o, new_level |-> n, messages |-> m]

\* Branch 1, the level is None: a group direct message to the administrators;
\* the latest level for an imported realm, level 0 otherwise.
DecideNeverInitialized_ignore_imported(strm, imported) ==
    Outcome("commit", 0, <<DM(strm)>>)

DecideNeverInitialized(strm, imported) ==
    Outcome("commit", IF imported THEN Latest ELSE 0, <<DM(strm)>>)

\* Branch 2, no stream: after the grace week, or with no row of the change
\* away from None, the realm moves to the latest level without messages.
DecideNoStream_reset(log, t) ==
    LET row == get_level_none_to_initial_auditlog(log)
    IN IF row = 0 \/ ~(t - log[row].time < GraceDays)
       THEN Outcome("commit", 0, <<>>)
       ELSE Outcome("return", None, <<>>)

DecideNoStream_no_grace(log, t) == Outcome("commit", Latest, <<>>)

DecideNoStream_late(log, t) ==
    LET row == get_level_none_to_initial_auditlog(log)
    IN IF row = 0 \/ ~(t - log[row].time <= GraceDays)
       THEN Outcome("commit", Latest, <<>>)
       ELSE Outcome("return", None, <<>>)

DecideNoStream_wait_forever(log, t) == Outcome("return", None, <<>>)

DecideNoStream(log, t) ==
    LET row == get_level_none_to_initial_auditlog(log)
    IN IF row = 0 \/ ~(t - log[row].time < GraceDays)
       THEN Outcome("commit", Latest, <<>>)
       ELSE Outcome("return", None, <<>>)

\* The 24 hour delay of a level 0 realm; "error" is the failed assertion of
\* is_group_direct_message_sent_to_admins_within_days, which Python evaluates
\* before it looks at skip_delay.
DelayCheck_no_delay(lvl, log, t, skip_delay) ==
    IF lvl = 0 /\ get_level_none_to_initial_auditlog(log) = 0 THEN "error"
    ELSE "go"

DelayCheck_ignore_skip(lvl, log, t, skip_delay) ==
    IF lvl # 0 THEN "go"
    ELSE IF get_level_none_to_initial_auditlog(log) = 0 THEN "error"
    ELSE IF is_group_direct_message_sent_to_admins_within_days(log, t, DelayDays)
    THEN "return"
    ELSE "go"

DelayCheck(lvl, log, t, skip_delay) ==
    IF lvl # 0 THEN "go"
    ELSE IF get_level_none_to_initial_auditlog(log) = 0 THEN "error"
    ELSE IF is_group_direct_message_sent_to_admins_within_days(log, t, DelayDays)
            /\ ~skip_delay
    THEN "return"
    ELSE "go"

DecideStream_intro_last(lvl, strm, log, t, topic_has_messages, skip_delay) ==
    LET c == DelayCheck(lvl, log, t, skip_delay)
    IN IF c # "go" THEN Outcome(c, None, <<>>)
       ELSE Outcome("commit", Latest,
                internal_prep_zulip_update_announcements_stream_messages(
                    lvl, Latest, strm)
                \o (IF topic_has_messages THEN <<>> ELSE <<Intro(strm)>>))

\* Branch 3, a stream is set: the introductory message if the topic has no
\* messages, then the catalog messages above the realm's level.
DecideStream(lvl, strm, log, t, topic_has_messages, skip_delay) ==
    LET c == DelayCheck(lvl, log, t, skip_delay)
    IN IF c # "go" THEN Outcome(c, None, <<>>)
       ELSE Outcome("commit", Latest,
                (IF topic_has_messages THEN <<>> ELSE <<Intro(strm)>>)
                \o internal_prep_zulip_update_announcements_stream_messages(
                       lvl, Latest, strm))

\* The decision of send_zulip_update_announcements_to_realm for a refreshed
\* realm (lvl, strm), the audit rows log, the time t and whether the topic
\* has messages: outcome "error" (an exception), "return" (nothing to do) or
\* "commit" with the new level and the message requests.
Decision(lvl, strm, log, t, topic_has_messages, skip_delay, imported) ==
    IF ~RefreshAssert(lvl) THEN Outcome("error", None, <<>>)
    ELSE IF lvl = None THEN DecideNeverInitialized(strm, imported)
    ELSE IF strm = NoStream THEN DecideNoStream(log, t)
    ELSE DecideStream(lvl, strm, log, t, topic_has_messages, skip_delay)

send_messages_no_save(st, old, new_level, requests, t) ==
    LET n == Len(st.sent)
        row == [time |-> t, old |-> old, new |-> new_level,
                ids |-> [i \in 1..Len(requests) |-> n + i]]
    IN [level |-> st.level,
        topic |-> st.topic \cup {requests[i].to : i \in
                     {j \in 1..Len(requests) : requests[j].to # Admins}},
        audit |-> Append(st.audit, row),
        sent  |-> st.sent \o requests]

send_messages_no_audit(st, old, new_level, requests, t) ==
    [level |-> new_level,
     topic |-> st.topic \cup {requests[i].to : i \in
                  {j \in 1..Len(requests) : requests[j].to # Admins}},
     audit |-> st.audit,
     sent  |-> st.sent \o requests]

\* send_messages_and_update_level, on the state st of one realm
\* ([level, topic, audit, sent]); old is the level of the realm object.
send_messages_and_update_level(st, old, new_level, requests, t) ==
    LET n == Len(st.sent)
        sent_message_ids == [i \in 1..Len(requests) |-> n + i]
        row == [time |-> t, old |-> old, new |-> new_level,
                ids |-> sent_message_ids]
    IN [level |-> new_level,
        topic |-> st.topic \cup {requests[i].to : i \in
                     {j \in 1..Len(requests) : requests[j].to # Admins}},
        audit |-> Append(st.audit, row),
        sent  |-> st.sent \o requests]

RealmState(r) == [level |-> level[r], topic |-> topic[r],
                  audit |-> audit[r], sent |-> sent[r]]

\* One uninterrupted call of send_zulip_update_announcements_to_realm.
send_zulip_update_announcements_to_realm(st, strm, t, skip_delay, imported) ==
    LET d == Decision(st.level, strm, st.audit, t, strm \in st.topic,
                      skip_delay, imported)
    IN IF d.outcome = "commit"
       THEN send_messages_and_update_level(st, st.level, d.new_level, d.messages, t)
       ELSE st

send_zulip_update_announcements_as_imported(f, strm, deact, t, skip_delay) ==
    LET behind == get_realms_behind_zulip_update_announcements_level(
                      [r \in Realms |-> f[r].level], deact,
                      get_latest_zulip_update_announcements_level)
    IN [r \in Realms |->
          IF r \in behind
          THEN send_zulip_update_announcements_to_realm(
                   f[r], strm[r], t, skip_delay, TRUE)
          ELSE f[r]]

\* send_zulip_update_announcements(skip_delay) on the realm states f: the
\* realms behind the latest level are processed one by one, an exception of
\* one realm is logged and the loop goes on.
send_zulip_update_announcements(f, strm, deact, t, skip_delay) ==
    LET behind == get_realms_behind_zulip_update_announcements_level(
                      [r \in Realms |-> f[r].level], deact,
                      get_latest_zulip_update_announcements_level)
    IN [r \in Realms |->
          IF r \in behind
          THEN send_zulip_update_announcements_to_realm(
                   f[r], strm[r], t, skip_delay, FALSE)
          ELSE f[r]]

\* ------------------------------------------------------------ exceptions
\* What a call can end with: NoExc (it returned), one of the subclasses of
\* Exception, or KeyboardInterrupt (the sweep is interrupted), which is not
\* a subclass of Exception.
NoExc == "none"
Exceptions == {"AssertionError", "IndexError", "TransportFailure", "StoreFailure"}

\* The calls of one realm's processing that can raise for reasons outside
\* this file, and what they raise: the database read, the catalog lookup,
\* the message send, the database writes of the commit, the interrupt.
NoFault == "none"
FaultPoints == {"refresh_from_db", "lookup", "do_send_messages", "save", "interrupt"}
Raised(fault) ==
    CASE fault = "refresh_from_db" -> "StoreFailure"
      [] fault = "lookup" -> "IndexError"
      [] fault = "do_send_messages" -> "TransportFailure"
      [] fault = "save" -> "StoreFailure"
      [] fault = "interrupt" -> "KeyboardInterrupt"
      [] OTHER -> NoExc

Result(st, exc) == [st |-> st, exc |-> exc]

transaction_atomic_no_rollback(st, old, new_level, requests, t, fault) ==
    IF fault = "do_send_messages" /\ requests # <<>>
    THEN Result(send_messages_and_update_level(st, old, new_level, <<>>, t),
                Raised(fault))
    ELSE IF fault = "save"
    THEN Result([st EXCEPT !.sent = @ \o requests], Raised(fault))
    ELSE Result(send_messages_and_update_level(st, old, new_level, requests, t), NoExc)

\* send_messages_and_update_level under @transaction.atomic: an exception of
\* do_send_messages (called only for a non-empty list) or of the two
\* database writes leaves the transaction, which is rolled back.
transaction_atomic(st, old, new_level, requests, t, fault) ==
    IF fault = "do_send_messages" /\ requests # <<>>
    THEN Result(st, Raised(fault))
    ELSE IF fault = "save"
    THEN Result(st, Raised(fault))
    ELSE Result(send_messages_and_update_level(st, old, new_level, requests, t), NoExc)

\* One call of send_zulip_update_announcements_to_realm in which the call
\* named by fault raises, if the function gets to it: the realm state after
\* the call and the exception the call ends with.
to_realm_raising(st, strm, t, skip_delay, imported, fault) ==
    IF fault \in {"interrupt", "refresh_from_db"} THEN Result(st, Raised(fault))
    ELSE LET d == Decision(st.level, strm, st.audit, t, strm \in st.topic,
                           skip_delay, imported)
         IN IF d.outcome = "error" THEN Result(st, "AssertionError")
            ELSE IF d.outcome = "return" THEN Result(st, NoExc)
            ELSE IF fault = "lookup" /\ st.level # None /\ strm # NoStream
                    /\ st.level < Latest
            THEN Result(st, Raised(fault))
            ELSE transaction_atomic(st, st.level, d.new_level, d.messages, t, fault)

except_nothing(exc) == FALSE

except_not_IndexError(exc) == exc \in Exceptions \ {"IndexError"}

\* `except Exception` of the sweep: is the exception caught (and logged)?
except_Exception(exc) == exc \in Exceptions

\* The orders in which the query can return the realms of the set S.
Orders(S) ==
    {o \in [1..Cardinality(S) -> S] :
        \A i \in 1..Cardinality(S), j \in 1..Cardinality(S) : o[i] = o[j] => i = j}

\* The loop of send_zulip_update_announcements from position i of the query
\* result order, with the fault in the call for the realm x: the realm
\* states at the end, the exceptions logged, and the exception that left
\* the loop (NoExc if it ran to its end).
RECURSIVE sweep_loop(_, _, _, _, _, _, _, _, _)
sweep_loop(f, logged, order, i, strm, t, skip_delay, x, fault) ==
    IF i > Len(order) THEN [f |-> f, logged |-> logged, exc |-> NoExc]
    ELSE LET r == order[i]
             res == to_realm_raising(f[r], strm[r], t, skip_delay, FALSE,
                                     IF r = x THEN fault ELSE NoFault)
             f2 == [f EXCEPT ![r] = res.st]
         IN IF res.exc = NoExc
            THEN sweep_loop(f2, logged, order, i + 1, strm, t, skip_delay, x, fault)
            ELSE IF except_Exception(res.exc)
            THEN sweep_loop(f2, Append(logged, [realm |-> r, exc |-> res.exc]),
                            order, i + 1, strm, t, skip_delay, x, fault)
            ELSE [f |-> f2, logged |-> logged, exc |-> res.exc]

\* The realms the query of the sweep selects in the current state.
Behind ==
    get_realms_behind_zulip_update_announcements_level(
        level, deactivated, get_latest_zulip_update_announcements_level)

\* send_zulip_update_announcements(skip_delay) from the realm states f, the
\* query returning the realms in the given order.
sweep_raising(f, order, skip_delay, x, fault) ==
    sweep_loop(f, <<>>, order, 1, stream, now, skip_delay, x, fault)

Cur == [r \in Realms |-> RealmState(r)]

NoArg == [skip_delay |-> FALSE, imported |-> FALSE]
NoObj == [realm |-> "-", level |-> None, stream |-> NoStream]
NoPlan == [new_level |-> None, messages |-> <<>>]

\* ---------------------------------------------------------------- Init
InitStore ==
    /\ level \in [Realms -> InitLevels]
    /\ level[SYSTEM_BOT_REALM] = None
    /\ stream \in [Realms -> {NoStream} \cup Streams]
    /\ stream[SYSTEM_BOT_REALM] = NoStream
    /\ deactivated = [r \in Realms |-> FALSE]
    /\ topic \in [Realms -> SUBSET Streams]
    /\ \A r \in Realms \ TopicRealms : topic[r] = {}
    /\ audit = [r \in Realms |-> <<>>]
    /\ sent = [r \in Realms |-> <<>>]
    /\ now = 0

InitLocal ==
    /\ pc = [p \in Procs |-> "idle"]
    /\ todo = [p \in Procs |-> {}]
    /\ arg = [p \in Procs |-> NoArg]
    /\ obj = [p \in Procs |-> NoObj]
    /\ plan = [p \in Procs |-> NoPlan]

Init == InitStore /\ InitLocal /\ lookups = <<>>

Idle == \A p \in Procs : pc[p] = "idle"

\* ------------------------------------------------------------- actions
Install(f) ==
    /\ level' = [r \in Realms |-> f[r].level]
    /\ topic' = [r \in Realms |-> f[r].topic]
    /\ audit' = [r \in Realms |-> f[r].audit]
    /\ sent'  = [r \in Realms |-> f[r].sent]

\* runRollout: one whole sweep, no other copy running.
RunRollout(skip_delay) ==
    /\ Idle
    /\ Install(send_zulip_update_announcements(Cur, stream, deactivated, now, skip_delay))
    /\ UNCHANGED <<stream, deactivated, now>>
    /\ UNCHANGED <<local, lookups>>

\* runRolloutForOrganization: send_zulip_update_announcements_to_realm
\* called directly for the realm o, no other copy running.
RunRolloutForOrganization(o, skip_delay, imported) ==
    /\ Idle
    /\ Install([Cur EXCEPT ![o] = send_zulip_update_announcements_to_realm(
                                      Cur[o], stream[o], now, skip_delay, imported)])
    /\ UNCHANGED <<stream, deactivated, now>>
    /\ UNCHANGED <<local, lookups>>

AdvanceTime(t) ==
    /\ t > now
    /\ now' = t
    /\ UNCHANGED <<level, stream, deactivated, topic, audit, sent>>
    /\ UNCHANGED <<local, lookups>>

SetChannel(r, s) ==
    /\ stream[r] # s
    /\ stream' = [stream EXCEPT ![r] = s]
    /\ UNCHANGED <<level, deactivated, topic, audit, sent, now>>
    /\ UNCHANGED <<local, lookups>>

SetDeactivated(r, b) ==
    /\ deactivated[r] # b
    /\ deactivated' = [deactivated EXCEPT ![r] = b]
    /\ UNCHANGED <<level, stream, topic, audit, sent, now>>
    /\ UNCHANGED <<local, lookups>>

\* runRollout in which one call raises: a whole sweep, the query returning
\* the realms in some order, the call named by fault raising for the realm x.
RunRolloutRaising(skip_delay, order, x, fault) ==
    /\ Idle
    /\ Install(sweep_raising(Cur, order, skip_delay, x, fault).f)
    /\ UNCHANGED <<stream, deactivated, now>>
    /\ UNCHANGED <<local, lookups>>

Next ==
    \/ \E k \in BOOLEAN : RunRollout(k)
    \/ \E k \in BOOLEAN, order \in Orders(Behind), x \in Behind,
          fault \in FaultPoints : RunRolloutRaising(k, order, x, fault)
    \/ \E o \in UserRealms, k \in BOOLEAN, i \in BOOLEAN :
           RunRolloutForOrganization(o, k, i)
    \/ \E t \in Days : AdvanceTime(t)
    \/ \E r \in UserRealms, s \in {NoStream} \cup Streams : SetChannel(r, s)
    \/ \E r \in DeactRealms, b \in BOOLEAN : SetDeactivated(r, b)

Spec == Init /\ [][Next]_vars

\* --------------------------------------------- the scheduled sweeps
\* The sweep is scheduled more often than once a day: the clock moves to its
\* next reading only when the sweep without skip_delay has nothing left to
\* do at the current one.
ClockTick(t) ==
    /\ send_zulip_update_announcements(Cur, stream, deactivated, now, FALSE) = Cur
    /\ AdvanceTime(t)

LiveNext ==
    \/ \E k \in BOOLEAN : RunRollout(k)
    \/ \E t \in Days : ClockTick(t)

\* The scheduled sweep is run again and again, and time goes on.
LiveSpec ==
    /\ Init
    /\ [][LiveNext]_vars
    /\ WF_vars(RunRollout(FALSE))
    /\ WF_vars(\E t \in Days : ClockTick(t))

\* ------------------------------------------------- the catalog lookups
\* The levels the lookup is called with.
QueryLevels == (0 - MaxQuery)..MaxQuery

\* A call of get_zulip_update_announcements_message_for_level(l), recorded
\* with the latest level and the entry whose message it returns.
Lookup(l) ==
    /\ Len(lookups) < MaxLookups
    /\ lookups' = Append(lookups,
           [level |-> l,
            latest |-> get_latest_zulip_update_announcements_level,
            entry |-> get_zulip_update_announcements_message_for_level(l)])
    /\ UNCHANGED <<store, local>>

LookupNext == \E l \in QueryLevels : Lookup(l)

LookupSpec == Init /\ [][LookupNext]_vars

\* ------------------------------------------- overlapping copies, by step
\* The copy p is done with the realm r of its loop: it goes on with the
\* next realm, or ends.
Finish(p, r) ==
    /\ todo' = [todo EXCEPT ![p] = @ \ {r}]
    /\ pc' = [pc EXCEPT ![p] = IF todo[p] \ {r} = {} THEN "idle" ELSE "refresh"]
    /\ arg' = [arg EXCEPT ![p] = IF todo[p] \ {r} = {} THEN NoArg ELSE @]
    /\ obj' = [obj EXCEPT ![p] = NoObj]
    /\ plan' = [plan EXCEPT ![p] = NoPlan]

Begin(p, realms, skip_delay, imported) ==
    /\ pc[p] = "idle"
    /\ realms # {}
    /\ pc' = [pc EXCEPT ![p] = "refresh"]
    /\ todo' = [todo EXCEPT ![p] = realms]
    /\ arg' = [arg EXCEPT ![p] = [skip_delay |-> skip_delay, imported |-> imported]]
    /\ UNCHANGED <<obj, plan>>
    /\ UNCHANGED <<store, lookups>>

\* send_zulip_update_announcements evaluates the query of the realms behind.
StartSweep(p, skip_delay) ==
    Begin(p, get_realms_behind_zulip_update_announcements_level(
                 level, deactivated, get_latest_zulip_update_announcements_level),
          skip_delay, FALSE)

\* A direct call of send_zulip_update_announcements_to_realm.
StartRealm(p, o, skip_delay, imported) == Begin(p, {o}, skip_delay, imported)

\* realm.refresh_from_db() and the assertion on the level it read.
Refresh(p, r) ==
    /\ pc[p] = "refresh"
    /\ r \in todo[p]
    /\ IF RefreshAssert(level[r])
       THEN /\ obj' = [obj EXCEPT ![p] = [realm |-> r, level |-> level[r],
                                          stream |-> stream[r]]]
            /\ pc' = [pc EXCEPT ![p] = "decide"]
            /\ UNCHANGED <<todo, arg, plan>>
       ELSE Finish(p, r)
    /\ UNCHANGED <<store, lookups>>

\* The branches of the function, up to the call of the commit: they read the
\* audit rows, the clock and the topic as they are now.
Decide(p) ==
    /\ pc[p] = "decide"
    /\ LET r == obj[p].realm
           d == Decision(obj[p].level, obj[p].stream, audit[r], now,
                         obj[p].stream \in topic[r],
                         arg[p].skip_delay, arg[p].imported)
       IN IF d.outcome = "commit"
          THEN /\ plan' = [plan EXCEPT ![p] = [new_level |-> d.new_level,
                                               messages |-> d.messages]]
               /\ pc' = [pc EXCEPT ![p] = "commit"]
               /\ UNCHANGED <<todo, arg, obj>>
          ELSE Finish(p, r)
    /\ UNCHANGED <<store, lookups>>

\* send_messages_and_update_level: one database transaction.
Commit(p) ==
    /\ pc[p] = "commit"
    /\ LET r == obj[p].realm
       IN /\ Install([Cur EXCEPT ![r] = send_messages_and_update_level(
                          Cur[r], obj[p].level, plan[p].new_level,
                          plan[p].messages, now)])
          /\ Finish(p, r)
    /\ UNCHANGED <<stream, deactivated, now, lookups>>

ConcNext ==
    \/ \E p \in Procs, k \in BOOLEAN : StartSweep(p, k)
    \/ \E p \in Procs, o \in UserRealms, k \in BOOLEAN, i \in BOOLEAN :
           StartRealm(p, o, k, i)
    \/ \E p \in Procs, r \in Realms : Refresh(p, r)
    \/ \E p \in Procs : Decide(p)
    \/ \E p \in Procs : Commit(p)

\* The copies overlap within one day and start with empty topics.
ConcInit == Init /\ \A r \in Realms : topic[r] = {}

ConcSpec == ConcInit /\ [][ConcNext]_vars

\* ------------------------------------- realms created or imported
\* A realm is created at the latest level or imported with level None, and
\* has no audit row of the level then; afterwards copies of the rollout
\* run, overlapping or not, while the clock and the stream settings change.
FreshInit ==
    /\ ConcInit
    /\ \A r \in FreshRealms : level[r] \in {None, NumLevels}
    /\ \A r \in UserRealms \ FreshRealms :
           level[r] = NumLevels /\ stream[r] = NoStream

FreshNext ==
    \/ ConcNext
    \/ \E t \in Days : AdvanceTime(t)
    \/ \E r \in FreshRealms, s \in {NoStream} \cup Streams : SetChannel(r, s)

FreshSpec == FreshInit /\ [][FreshNext]_vars

\* ------------------------------------------------------ properties
\* How many times the catalog message of level l was sent to the realm r.
Count(r, l) ==
    Cardinality({i \in 1..Len(sent[r]) :
                   sent[r][i].kind = "update" /\ sent[r][i].level = l})

\* The catalog levels of the update messages of a list of messages, in order.
UpdateLevels(msgs) ==
    LET ups == SelectSeq(msgs, LAMBDA m : m.kind = "update")
    IN [i \in 1..Len(ups) |-> ups[i].level]

\* The levels a+1, ..., b in increasing order.
Range(a, b) == [i \in 1..(b - a) |-> a + i]

\* The messages the realm state st2 holds beyond those of the realm r now.
NewMessages(r, st2) == SubSeq(st2.sent, Len(sent[r]) + 1, Len(st2.sent))

\* The realm states a direct call for r can produce from the current state.
DirectResults(r, skip_delay) ==
    {send_zulip_update_announcements_to_realm(Cur[r], stream[r], now, skip_delay, i) :
        i \in BOOLEAN}

\* The states of r that a run processing r can produce from the current
\* state: a direct call for r, or a sweep that selects r.
RunResults(r, skip_delay) ==
    DirectResults(r, skip_delay) \cup
    (IF r \in get_realms_behind_zulip_update_announcements_level(
                  level, deactivated, Latest)
     THEN {send_zulip_update_announcements(
               Cur, stream, deactivated, now, skip_delay)[r]}
     ELSE {})

\* The time of the audit row of the change away from None (r has one).
OnboardTime(r) == audit[r][get_level_none_to_initial_auditlog(audit[r])].time
HasOnboardRow(r) == get_level_none_to_initial_auditlog(audit[r]) # 0

\* C1: with overlapping copies of the rollout on one realm, every catalog
\* level above the realm's level is sent to the realm once in total: the
\* levels of the update messages the realm was sent are strictly increasing
\* (the copy that commits second sends nothing).
C1_OverlapSendsOnce ==
    \A r \in Realms :
        LET ups == UpdateLevels(sent[r])
        IN \A i \in 1..Len(ups), j \in 1..Len(ups) : i < j => ups[i] < ups[j]

\* C2: over runs that do not overlap, interleaved with clock, channel and
\* deactivation changes, no realm is sent the catalog message of a level
\* more than once.
C2_NoLevelTwice ==
    \A r \in Realms, l \in 1..NumLevels : Count(r, l) <= 1

C2_Witness ==
    \E r \in UserRealms :
        /\ level[r] = Latest
        /\ \A l \in 1..NumLevels : Count(r, l) = 1
        /\ now > audit[r][Len(audit[r])].time
        /\ stream[r] # NoStream /\ ~deactivated[r]

\* C3: the stored level is None or within 0..latest level, never goes from
\* an integer back to None and never decreases from one state to the next.
C3_LevelMonotone ==
    /\ [](\A r \in Realms : level[r] = None \/ level[r] \in 0..NumLevels)
    /\ [][\A r \in Realms :
              /\ level[r] # None => level'[r] # None
              /\ level[r] # None => level'[r] >= level[r]]_vars

C3_Witness ==
    \E r \in UserRealms :
        /\ Len(audit[r]) = 2
        /\ audit[r][1].old = None /\ audit[r][1].new = 0
        /\ audit[r][2].old = 0 /\ audit[r][2].new = NumLevels
        /\ level[r] = NumLevels

\* The realm states after one sweep, and after a second sweep right behind it.
Sweep1(skip_delay) ==
    send_zulip_update_announcements(Cur, stream, deactivated, now, skip_delay)
Sweep2(skip_delay) ==
    send_zulip_update_announcements(Sweep1(skip_delay), stream, deactivated,
                                    now, skip_delay)

\* C4 as stated: for either skip_delay, a second sweep right behind a first
\* one, with the clock and the settings unchanged, sends no message and
\* appends no audit row.
C4_SecondSweepNoOp ==
    \A k \in BOOLEAN :
        LET f1 == Sweep1(k)
            f2 == Sweep2(k)
        IN \A r \in Realms : f2[r].sent = f1[r].sent /\ f2[r].audit = f1[r].audit

\* C4 amended: the second sweep sends no message and appends no audit row,
\* except that with skip_delay it sends the catch-up batch to the realms
\* with a stream that the first sweep moved from None to level 0.
C4_SecondSweepNoOpAmended ==
    \A k \in BOOLEAN :
        LET f1 == Sweep1(k)
            f2 == send_zulip_update_announcements(f1, stream, deactivated, now, k)
        IN \A r \in Realms :
            \/ f2[r].sent = f1[r].sent /\ f2[r].audit = f1[r].audit
            \/ /\ k
               /\ level[r] = None /\ f1[r].level = 0
               /\ stream[r] # NoStream
               /\ f2[r].level = Latest
               /\ UpdateLevels(SubSeq(f2[r].sent, Len(f1[r].sent) + 1,
                                      Len(f2[r].sent))) = Range(0, NumLevels)

\* A first sweep without skip_delay sends a catch-up batch to one realm and
\* onboards another; the second sweep changes neither.
C4_Witness ==
    /\ now > 0
    /\ \E r \in UserRealms :
          /\ level[r] # None
          /\ Len(Sweep1(FALSE)[r].sent) > Len(sent[r])
    /\ \E r \in UserRealms :
          /\ level[r] = None /\ stream[r] # NoStream
          /\ Sweep1(FALSE)[r].level = 0
    /\ Sweep2(FALSE) = Sweep1(FALSE)

\* C5 as stated: a run that commits for a realm at level L below the latest
\* level with a stream leaves the realm at the latest level and sends exactly
\* latest - L messages, the catalog messages of L+1, ..., latest in order.
C5_CatchUpExactCount ==
    \A r \in Realms, k \in BOOLEAN :
        (level[r] \in 0..(NumLevels - 1) /\ stream[r] # NoStream) =>
            \A st2 \in RunResults(r, k) :
                st2.audit # audit[r] =>
                    /\ st2.level = NumLevels
                    /\ NewMessages(r, st2) =
                           [i \in 1..(NumLevels - level[r]) |->
                               Update(level[r] + i, stream[r])]

\* C5 amended: such a run leaves the realm at the latest level and sends the
\* catalog messages of L+1, ..., latest, one each and in increasing order,
\* preceded by the introductory message when the topic had no messages.
C5_CatchUpBatch ==
    \A r \in Realms, k \in BOOLEAN :
        (level[r] \in 0..(NumLevels - 1) /\ stream[r] # NoStream) =>
            \A st2 \in RunResults(r, k) :
                st2.audit # audit[r] =>
                    /\ st2.level = NumLevels
                    /\ NewMessages(r, st2) =
                           (IF stream[r] \in topic[r] THEN <<>>
                            ELSE <<Intro(stream[r])>>)
                           \o [i \in 1..(NumLevels - level[r]) |->
                                  Update(level[r] + i, stream[r])]

\* A realm was caught up from level 2 with the introductory message in front.
C5_Witness ==
    \E r \in UserRealms :
        /\ Len(audit[r]) = 1
        /\ audit[r][1].old = 2 /\ audit[r][1].new = NumLevels
        /\ Len(sent[r]) = NumLevels - 2 + 1
        /\ sent[r][1].kind = "intro"
        /\ UpdateLevels(sent[r]) = Range(2, NumLevels)
        /\ audit[r][1].ids = [i \in 1..Len(sent[r]) |-> i]

\* C6: a run that processes a realm below the latest level with no stream
\* changes nothing while the row of the change away from None exists and is
\* less than 7 days old; otherwise it sets the latest level, writes one audit
\* row with no message ids and sends no message.
C6_GraceWindow ==
    \A r \in Realms, k \in BOOLEAN :
        (level[r] \in 0..(NumLevels - 1) /\ stream[r] = NoStream) =>
            \A st2 \in RunResults(r, k) :
                IF HasOnboardRow(r) /\ now - OnboardTime(r) < 7
                THEN st2 = Cur[r]
                ELSE /\ st2.level = NumLevels
                     /\ st2.sent = sent[r]
                     /\ st2.topic = topic[r]
                     /\ st2.audit = Append(audit[r],
                            [time |-> now, old |-> level[r], new |-> NumLevels,
                             ids |-> <<>>])

\* A realm onboarded without a stream waited through the grace week and was
\* then moved to the latest level without messages.
C6_Witness ==
    \E r \in UserRealms :
        /\ Len(audit[r]) = 2 /\ Len(sent[r]) = 1
        /\ sent[r][1].kind = "dm_unset"
        /\ audit[r][1].old = None /\ audit[r][1].new = 0
        /\ audit[r][2].old = 0 /\ audit[r][2].new = NumLevels
        /\ audit[r][2].ids = <<>>
        /\ audit[r][2].time - audit[r][1].time >= 7
        /\ level[r] = NumLevels

\* C7: a run that processes a level 0 realm with a stream and a row of the
\* change away from None takes no action when that row is less than 24 hours
\* old and skip_delay is false; with skip_delay, or from 24 hours on, it
\* sends the catalog messages 1, ..., latest and sets the latest level.
C7_DelayWindow ==
    \A r \in Realms, k \in BOOLEAN :
        (level[r] = 0 /\ stream[r] # NoStream /\ HasOnboardRow(r)) =>
            \A st2 \in RunResults(r, k) :
                IF now - OnboardTime(r) < 1 /\ ~k
                THEN st2 = Cur[r]
                ELSE /\ st2.level = NumLevels
                     /\ Len(st2.audit) = Len(audit[r]) + 1
                     /\ UpdateLevels(NewMessages(r, st2)) = Range(0, NumLevels)

\* A realm onboarded to level 0 was caught up on the day of its onboarding
\* (a run with skip_delay), while a run without skip_delay leaves another
\* realm, onboarded the same day, alone.
C7_Witness ==
    /\ \E r \in UserRealms :
          /\ Len(audit[r]) = 2
          /\ audit[r][1].old = None /\ audit[r][1].new = 0
          /\ audit[r][2].old = 0 /\ audit[r][2].new = NumLevels
          /\ audit[r][2].time = audit[r][1].time
          /\ UpdateLevels(sent[r]) = Range(0, NumLevels)
    /\ \E r \in UserRealms :
          /\ level[r] = 0 /\ stream[r] # NoStream /\ HasOnboardRow(r)
          /\ now = OnboardTime(r)
          /\ ~deactivated[r]

\* C8: a realm onboarded to level 0 misses no update message when it gets a
\* stream within the grace week: while it has no stream and its onboarding row
\* is less than 7 days old no step moves its level or sends it anything, and
\* a step that moves it off level 0 while it has a stream has sent it the
\* catalog messages 1, ..., latest.
C8_NoMissedUpdates ==
    [][\A r \in Realms :
          (level[r] = 0 /\ HasOnboardRow(r)) =>
              /\ (stream[r] = NoStream /\ now - OnboardTime(r) < 7) =>
                     (level'[r] = 0 /\ sent'[r] = sent[r] /\ audit'[r] = audit[r])
              /\ (stream[r] # NoStream /\ level'[r] # 0) =>
                     UpdateLevels(sent'[r]) = Range(0, NumLevels)]_vars

\* A realm onboarded without a stream was caught up inside the grace week,
\* after the end of the delay window, with every catalog message.
C8_Witness ==
    \E r \in UserRealms :
        /\ Len(audit[r]) = 2
        /\ sent[r][1].kind = "dm_unset"
        /\ audit[r][1].old = None /\ audit[r][1].new = 0
        /\ audit[r][2].time - audit[r][1].time < 7
        /\ audit[r][2].time - audit[r][1].time >= 1
        /\ level[r] = NumLevels
        /\ UpdateLevels(sent[r]) = Range(0, NumLevels)

\* The realm r left None for the latest level: it was onboarded as imported.
OnboardedAsImported(r) ==
    /\ audit[r] # <<>>
    /\ audit[r][1].old = None /\ audit[r][1].new = NumLevels

\* C9: a direct call with the imported flag moves a realm at None to the
\* latest level, not to 0, and a realm onboarded that way is never sent a
\* catalog message.
C9_ImportedRealm ==
    \A r \in Realms :
        /\ level[r] = None =>
              \A k \in BOOLEAN :
                  LET st2 == send_zulip_update_announcements_to_realm(
                                 Cur[r], stream[r], now, k, TRUE)
                  IN /\ st2.level = NumLevels
                     /\ Len(st2.audit) = 1
                     /\ st2.audit[1].old = None /\ st2.audit[1].new = NumLevels
        /\ OnboardedAsImported(r) =>
              \A l \in 1..NumLevels : Count(r, l) = 0

\* A realm with a stream was onboarded as imported and, days later, has been
\* sent nothing but the group direct message.
C9_Witness ==
    \E r \in UserRealms :
        /\ OnboardedAsImported(r)
        /\ stream[r] # NoStream /\ ~deactivated[r]
        /\ now - audit[r][1].time >= 7
        /\ Len(sent[r]) = 1 /\ sent[r][1].to = Admins

\* C10: also with overlapping copies, every step that changes the level or
\* the audit rows of a realm appends exactly one row, whose old value is the
\* level stored before the step and whose new value is the level stored
\* after it.  (The rows start empty, so they then form a chain that ends in
\* the stored level, one row per committed transition.)
C10_AuditChain ==
    [][\A r \in Realms :
          (level'[r] # level[r] \/ audit'[r] # audit[r]) =>
              /\ Len(audit'[r]) = Len(audit[r]) + 1
              /\ SubSeq(audit'[r], 1, Len(audit[r])) = audit[r]
              /\ audit'[r][Len(audit'[r])].old = level[r]
              /\ audit'[r][Len(audit'[r])].new = level'[r]]_vars

\* The exception logged for the realm x in a sweep, NoExc if none was.
LoggedFor(res, x) ==
    IF \E i \in 1..Len(res.logged) : res.logged[i].realm = x
    THEN res.logged[CHOOSE i \in 1..Len(res.logged) : res.logged[i].realm = x].exc
    ELSE NoExc

\* C11: when the message send of a realm's commit fails in a sweep, the
\* realm's level and audit rows are as before, the realm is still selected
\* as behind, and the next sweep sends it the whole batch the failed run
\* would have sent.
C11_TransportFailureAllOrNothing ==
    \A k \in BOOLEAN, order \in Orders(Behind), x \in Behind :
        LET bad == sweep_raising(Cur, order, k, x, "do_send_messages")
        IN LoggedFor(bad, x) = "TransportFailure" =>
              /\ bad.f[x] = Cur[x]
              /\ x \in get_realms_behind_zulip_update_announcements_level(
                           [r \in Realms |-> bad.f[r].level], deactivated, NumLevels)
              /\ LET retry == sweep_raising(bad.f, order, k, x, NoFault)
                 IN /\ retry.f[x] = Sweep1(k)[x]
                    /\ Len(retry.f[x].sent) > Len(sent[x])
                    /\ Len(retry.f[x].audit) = Len(audit[x]) + 1

\* The state after a sweep in which the send failed for one realm, behind
\* by several levels, and went through for the other.
C11_Witness ==
    \E x \in UserRealms, y \in UserRealms :
        /\ x # y
        /\ level[x] \in 1..(NumLevels - 1) /\ audit[x] = <<>> /\ sent[x] = <<>>
        /\ LoggedFor(sweep_raising(Cur, <<x>>, FALSE, x, "do_send_messages"), x)
               = "TransportFailure"
        /\ level[y] = NumLevels /\ Len(audit[y]) = 1
        /\ audit[y][1].time = now /\ Len(audit[y][1].ids) > 1

\* C12: a failure for one realm of a sweep (the message send, the database,
\* or a failed assertion) does not stop the sweep: the loop runs to its end
\* and every other realm ends as in a sweep without the failing realm.
C12_FailureIsolation ==
    \A k \in BOOLEAN, order \in Orders(Behind), x \in Behind,
       fault \in {NoFault, "refresh_from_db", "do_send_messages", "save"} :
        LET bad == sweep_raising(Cur, order, k, x, fault)
            without == send_zulip_update_announcements(
                           Cur, stream, [deactivated EXCEPT ![x] = TRUE], now, k)
            exc == to_realm_raising(Cur[x], stream[x], now, k, FALSE, fault).exc
        IN (x \in Behind /\ exc \in {"TransportFailure", "StoreFailure", "AssertionError"}) =>
              /\ bad.exc = NoExc
              /\ LoggedFor(bad, x) = exc
              /\ bad.f[x] = Cur[x]
              /\ \A y \in Realms \ {x} : bad.f[y] = without[y]

\* The state after a sweep in which the assertion failed for one realm
\* (level 0, a stream, no row of the change away from None) and the other
\* realm, processed after it, was onboarded.
C12_Witness ==
    \E x \in UserRealms, y \in UserRealms :
        /\ x # y
        /\ x \in Behind
        /\ LoggedFor(sweep_raising(Cur, <<x>>, TRUE, x, NoFault), x) = "AssertionError"
        /\ level[y] = 0 /\ Len(audit[y]) = 1
        /\ audit[y][1].old = None /\ audit[y][1].time = now

\* The realms of the query result order from position i on.
After(order, i) == {order[j] : j \in (i + 1)..Len(order)}

MaxCatalogLevel ==
    CHOOSE l \in {zulip_update_announcements[i].level : i \in 1..NumLevels} :
        \A i \in 1..NumLevels : zulip_update_announcements[i].level <= l

\* C14: the lookup returns the entry of the level it is called with for the
\* levels 1..latest and fails with an out-of-range error for every other
\* integer, 0 and the negative ones included; the latest level is the
\* largest level of the catalog.
C14_LookupContract ==
    \A i \in 1..Len(lookups) :
        LET q == lookups[i]
        IN /\ q.latest = MaxCatalogLevel
           /\ q.level \in 1..q.latest => q.entry.level = q.level
           /\ q.level \notin 1..q.latest => q.entry = IndexError

\* C15: a sweep leaves the deactivated realms and the system realm as they
\* are and processes exactly the realms that are not deactivated, are not
\* the system realm and have level None or below the latest level, whatever
\* the order of the query result; a deactivated realm with a stream that is
\* reactivated is sent, by the sweep that then processes it, every catalog
\* level above its stored level (a level 0 realm: once its 24 hour delay is
\* over or skipped).
C15_SweepFrame ==
    \A k \in BOOLEAN :
        LET f1 == Sweep1(k)
        IN /\ \A r \in Realms :
                 (deactivated[r] \/ r = SYSTEM_BOT_REALM) => f1[r] = Cur[r]
           /\ \A r \in Realms :
                 f1[r] = IF /\ ~deactivated[r]
                            /\ r # SYSTEM_BOT_REALM
                            /\ (level[r] = None \/ level[r] < NumLevels)
                         THEN send_zulip_update_announcements_to_realm(
                                  Cur[r], stream[r], now, k, FALSE)
                         ELSE Cur[r]
           /\ \A order \in Orders(Behind) :
                 sweep_raising(Cur, order, k, SYSTEM_BOT_REALM, NoFault).f = f1
           /\ \A r \in Realms :
                 (/\ deactivated[r]
                  /\ stream[r] # NoStream
                  /\ \/ level[r] \in 1..(NumLevels - 1)
                     \/ /\ level[r] = 0 /\ HasOnboardRow(r)
                        /\ (k \/ now - OnboardTime(r) >= 1)) =>
                     LET g == send_zulip_update_announcements(
                                  Cur, stream, [deactivated EXCEPT ![r] = FALSE],
                                  now, k)[r]
                     IN /\ g.level = NumLevels
                        /\ UpdateLevels(NewMessages(r, g)) = Range(level[r], NumLevels)

\* A sweep has caught up one realm and left alone a deactivated realm that
\* is behind and has a stream.
C15_Witness ==
    \E r \in UserRealms, y \in UserRealms :
        /\ deactivated[r] /\ level[r] = 2 /\ stream[r] # NoStream
        /\ sent[r] = <<>> /\ audit[r] = <<>>
        /\ level[y] = NumLevels /\ Len(audit[y]) = 1 /\ audit[y][1].old = 2
        /\ audit[y][1].time = now /\ now > 0

\* C16: also with overlapping copies, a copy whose re-read finds a level
\* that is not None and not below the latest level ends its call for that
\* realm with an error: it never gets to decide or commit for it, the step
\* sends no message, writes no audit row and changes no level, and the copy
\* goes on with the remaining realms of its sweep.
C16_RefreshAssertion ==
    /\ [](\A p \in Procs :
             pc[p] \in {"decide", "commit"} =>
                 (obj[p].level = None \/ obj[p].level < NumLevels))
    /\ [][\A p \in Procs, r \in Realms :
             (/\ pc[p] = "refresh" /\ r \in todo[p] /\ r \notin todo'[p]
              /\ level[r] # None /\ level[r] >= NumLevels) =>
                 /\ level' = level /\ audit' = audit
                 /\ sent' = sent /\ topic' = topic
                 /\ todo'[p] = todo[p] \ {r}
                 /\ pc'[p] = IF todo'[p] = {} THEN "idle" ELSE "refresh"]_vars

\* A copy is about to re-read a realm that another copy, now done, has
\* moved to the latest level since the first copy's query selected it.
C16_Witness ==
    \E p \in Procs, q \in Procs, r \in UserRealms :
        /\ p # q
        /\ pc[p] = "refresh" /\ r \in todo[p] /\ Cardinality(todo[p]) = 2
        /\ pc[q] = "idle"
        /\ level[r] = NumLevels /\ Len(audit[r]) = 1

\* C17: a run for a realm at level None sends exactly one message, the group
\* direct message to the administrators (with or without a stream), and no
\* catalog message, writes one audit row with old value None, and sets the
\* level to the latest level if the call has the imported flag and to 0
\* otherwise; a sweep, which never passes the flag, sets 0.
C17_NeverInitialized ==
    \A r \in Realms :
        level[r] = None =>
            /\ \A k \in BOOLEAN, i \in BOOLEAN :
                  LET st2 == send_zulip_update_announcements_to_realm(
                                 Cur[r], stream[r], now, k, i)
                      new == IF i THEN NumLevels ELSE 0
                      msgs == NewMessages(r, st2)
                  IN /\ Len(msgs) = 1
                     /\ msgs[1].to = Admins
                     /\ msgs[1].kind = IF stream[r] = NoStream THEN "dm_unset"
                                       ELSE "dm_set"
                     /\ UpdateLevels(msgs) = <<>>
                     /\ st2.topic = topic[r]
                     /\ st2.level = new
                     /\ st2.audit = Append(audit[r],
                            [time |-> now, old |-> None, new |-> new,
                             ids |-> <<Len(sent[r]) + 1>>])
            /\ \A k \in BOOLEAN :
                  r \in Behind =>
                      /\ Sweep1(k)[r].level = 0
                      /\ Len(Sweep1(k)[r].sent) = Len(sent[r]) + 1

\* A sweep has onboarded two realms from None to level 0, one with a stream
\* and one without, each with the one direct message.
C17_Witness ==
    \E r \in UserRealms, y \in UserRealms :
        /\ stream[r] # NoStream /\ stream[y] = NoStream
        /\ sent[r] = <<DM(stream[r])>> /\ sent[y] = <<DM(NoStream)>>
        /\ level[r] = 0 /\ level[y] = 0
        /\ audit[r] = <<[time |-> now, old |-> None, new |-> 0, ids |-> <<1>>]>>
        /\ audit[y] = audit[r]

\* How many introductory messages the realm r was sent.
IntroCount(r) ==
    Cardinality({i \in 1..Len(sent[r]) : sent[r][i].kind = "intro"})

\* C18: the messages of one commit for a realm with a stream are, in this
\* order, the introductory message if and only if the topic had no message,
\* then the catalog messages of the levels above the realm's level in
\* increasing order; the message ids of the audit row are the ids of these
\* messages in the same order; over runs that do not overlap a realm is sent
\* the introductory message at most once.
C18_BatchOrder ==
    \A r \in Realms :
        /\ IntroCount(r) <= 1
        /\ \A j \in 1..Len(audit[r]) :
              \A a \in 1..Len(audit[r][j].ids), b \in 1..Len(audit[r][j].ids) :
                  a < b => audit[r][j].ids[a] < audit[r][j].ids[b]
        /\ \A k \in BOOLEAN :
              (level[r] \in 0..(NumLevels - 1) /\ stream[r] # NoStream) =>
                  \A st2 \in RunResults(r, k) :
                      st2.audit # audit[r] =>
                          LET msgs == NewMessages(r, st2)
                              ids == st2.audit[Len(st2.audit)].ids
                              first == IF stream[r] \in topic[r] THEN 1 ELSE 2
                          IN /\ Len(msgs) = (first - 1) + (NumLevels - level[r])
                             /\ first = 2 => msgs[1] = Intro(stream[r])
                             /\ \A i \in first..Len(msgs) :
                                    msgs[i] = Update(level[r] + i - first + 1, stream[r])
                             /\ Len(ids) = Len(msgs)
                             /\ \A i \in 1..Len(ids) : st2.sent[ids[i]] = msgs[i]

\* One realm, whose topic held messages, was caught up from level 2 without
\* the introductory message; the other got it in front of its batch.
C18_Witness ==
    \E r \in UserRealms, y \in UserRealms :
        /\ IntroCount(r) = 0 /\ Len(sent[r]) = NumLevels - 2
        /\ audit[r][Len(audit[r])].ids = [i \in 1..(NumLevels - 2) |-> i]
        /\ UpdateLevels(sent[r]) = Range(2, NumLevels)
        /\ IntroCount(y) = 1 /\ sent[y][1].kind = "intro"
        /\ audit[y][Len(audit[y])].ids = [i \in 1..Len(sent[y]) |-> i]
        /\ level[y] = NumLevels

\* The sweeps select the realm r and it is not at the latest level.
Eligible(r) ==
    /\ r # SYSTEM_BOT_REALM
    /\ ~deactivated[r]
    /\ (level[r] = None \/ level[r] < NumLevels)

\* A level 0 realm with a stream and no audit row of the change away from
\* None: every run for it ends in the failed assertion.
NoOnboardRowAtZero(r) ==
    level[r] = 0 /\ stream[r] # NoStream /\ ~HasOnboardRow(r)

C20_OnboardRowExists ==
    /\ \A r \in Realms :
           (level[r] = 0 /\ stream[r] # NoStream) => HasOnboardRow(r)
    /\ \A p \in Procs :
           (pc[p] = "decide" /\ obj[p].level # None /\ obj[p].stream # NoStream) =>
               DelayCheck(obj[p].level, audit[obj[p].realm], now,
                          arg[p].skip_delay) # "error"

\* Two copies overlap on an onboarded realm: one has re-read level 0 and a
\* stream and is at the delay check, the other is in its run too.
C20_Witness ==
    \E p \in Procs, q \in Procs :
        /\ p # q
        /\ pc[p] = "decide" /\ obj[p].level = 0 /\ obj[p].stream # NoStream
        /\ pc[q] = "commit" /\ obj[q].realm = obj[p].realm
        /\ HasOnboardRow(obj[p].realm)
====
